---- MODULE Spec2Model ----
(***************************************************************************)
(* A model of lib/middleware/proxy.ts of lambdawebserver: ProxyRoute (one  *)
(* proxy binding and its Oak middleware) and ProxyRouter (the ordered list *)
(* of routes and the middleware built from it).                            *)
(*                                                                         *)
(* Strings are sequences of characters.  A character is written as a TLA+  *)
(* string: "/", "a", "A", "h", "x", " ", "I", "i", and two characters that *)
(* are not ASCII: "Idot" is U+0130 (capital I with dot above) and "dot" is *)
(* U+0307 (combining dot above).  A URL pathname is a sequence of the same  *)
(* characters and of percent escapes: "%20" and "%41" are the escapes of   *)
(* " " and "A", and "%" alone is a malformed escape.                       *)
(***************************************************************************)
EXTENDS Integers, Sequences, FiniteSets, TLC

VARIABLES
    routes,      \* ProxyRouter.routes: the registered ProxyRoute objects
    lastIndex,   \* lastIndex of the RegExp objects of each route's exclude_paths
    built,       \* the configuration: "none" while routes are registered, "invalid target"
                 \* when a registration threw, else the outcome of ProxyRouter.proxy():
                 \* "threw", "single", "composed"
    pc,          \* where the request in flight is: "idle", "dispatch", "fetching", "done", "error"
    req,         \* ctx.request of the request in flight
    cur,         \* index of the route whose middleware runs or awaits its upstream
    outbound,    \* the fetch() issued by route cur while pc = "fetching"
    response,    \* ctx.response of the request in flight
    nextCalls,   \* how many times the pipeline's next stage was invoked for this request
    log,         \* what happened to the request in flight, in order
    probe,       \* one application of get_target_path (specification SpecPath)
    calls        \* the registration calls made on the router, in call order

vars == <<routes, lastIndex, built, pc, req, cur, outbound, response, nextCalls, log, probe,
          calls>>

\* ------------------------------------------------------------------ bounds

\* How many routes a router is given.
MaxRoutes == 2

\* How long a local path and a request path are in SpecPath.
MaxPathLen == 3

\* ------------------------------------------------------------------ lib/http.ts

ALL_HTTP_METHODS == <<"DELETE", "GET", "HEAD", "OPTIONS", "PATCH", "POST", "PUT">>

NotFound == 404

MovedPermanently == 301

\* ------------------------------------------------------------------ strings

Range(s) == {s[i] : i \in 1..Len(s)}

\* String.prototype.toLowerCase on one character: the Unicode lower-case mapping.
\* U+0130 maps to the two characters U+0069 U+0307.
LowerOf(c) ==
    CASE c = "A" -> <<"a">>
      [] c = "H" -> <<"h">>
      [] c = "X" -> <<"x">>
      [] c = "I" -> <<"i">>
      [] c = "Idot" -> <<"i", "dot">>
      [] OTHER -> <<c>>

RECURSIVE toLowerCase(_)
toLowerCase(s) ==
    IF s = <<>> THEN <<>> ELSE LowerOf(Head(s)) \o toLowerCase(Tail(s))

\* String.prototype.startsWith
startsWith(s, p) == Len(p) <= Len(s) /\ SubSeq(s, 1, Len(p)) = p

\* String.prototype.substring(n): the characters from index n (0-based) on.
substring(s, n) == SubSeq(s, n + 1, Len(s))

\* ------------------------------------------------------------------ URLs

\* encodeURI-style escaping done by the URL pathname setter: a character of the path
\* percent-encode set is replaced by its escape, "%" and the escapes are kept.
EncodePathChar(c) ==
    CASE c = " " -> "%20"
      [] c = "Idot" -> "%C4%B0"
      [] OTHER -> c

\* The URL pathname setter: url.pathname = s.
SetPathname(s) == [i \in 1..Len(s) |-> EncodePathChar(s[i])]

\* One unit of a pathname, decoded.
DecodeUnit(u) ==
    CASE u = "%20" -> " "
      [] u = "%41" -> "A"
      [] u = "%C4%B0" -> "Idot"
      [] OTHER -> u

\* decodeURIComponent throws URIError on a malformed escape.
IsMalformed(pathname) == \E i \in 1..Len(pathname) : pathname[i] = "%"

decodeURIComponent(pathname) == [i \in 1..Len(pathname) |-> DecodeUnit(pathname[i])]

\* A parsed URL: new URL(...).
URL(origin, host, pathname, search) ==
    [origin |-> origin, host |-> host, pathname |-> pathname, search |-> search]

\* A Location header value: absent (headers.get returns null), the empty string, a
\* relative reference (new URL(location) throws TypeError) or an absolute URL.
NoLocation == [kind |-> "absent"]

EmptyLocation == [kind |-> "empty"]

RelativeLocation(pathname) == [kind |-> "relative", pathname |-> pathname]

AbsoluteLocation(url) ==
    [kind |-> "absolute", origin |-> url.origin, host |-> url.host,
     pathname |-> url.pathname, search |-> url.search]

\* url.href, as a header value.
Href(url) == AbsoluteLocation(url)

\* ------------------------------------------------------------------ RegExp

\* A RegExp whose source is a literal string: it matches where the string occurs.
OccursAt(p, s, j) == j + Len(p) <= Len(s) /\ SubSeq(s, j + 1, j + Len(p)) = p

Matches(p, s) == \E j \in 0..Len(s) : OccursAt(p, s, j)

Min(S) == CHOOSE x \in S : \A y \in S : x <= y

\* RegExp.prototype.test(s) on a RegExp with lastIndex li: the result and the new
\* lastIndex.  Without the g flag lastIndex is neither read nor written; with it the
\* search starts at lastIndex, which is then set past the match, or to 0 on failure.
RegExpTest(m, li, s) ==
    IF ~m.global
    THEN [result |-> Matches(m.source, s), lastIndex |-> li]
    ELSE LET hits == {j \in li..Len(s) : OccursAt(m.source, s, j)}
         IN  IF hits = {}
             THEN [result |-> FALSE, lastIndex |-> 0]
             ELSE [result |-> TRUE, lastIndex |-> Min(hits) + Len(m.source)]

StringMatcher(value) == [kind |-> "string", value |-> value]

RegExpMatcher(source, global) == [kind |-> "regexp", source |-> source, global |-> global]

\* ------------------------------------------------------------------ ProxyRoute

\* An option that is not given.
Undefined == "undefined"

\* ProxyRoute's constructor.
ProxyRoute(methods, path, target, options) ==
    [methods |-> methods,
     path |-> path,
     target |-> target,
     options |-> options,
     insensitive_path |-> toLowerCase(path),
     path_mode |-> IF options.path_mode # Undefined THEN options.path_mode ELSE "single",
     redirect_policy |-> IF options.redirect # Undefined THEN options.redirect ELSE "follow"]

\* The result of get_target_path: null, or the remainder string.
Null == [found |-> FALSE, rest |-> <<>>]

Found(r) == [found |-> TRUE, rest |-> r]

\* Mutant of get_target_path: compares the request path without lower-casing it.
get_target_path_sensitive(route, given) ==
    IF route.path_mode = "single"
    THEN IF route.insensitive_path = given THEN Found(<<>>) ELSE Null
    ELSE IF startsWith(given, route.insensitive_path)
         THEN Found(substring(given, Len(route.path)))
         ELSE Null

\* ProxyRoute.get_target_path
get_target_path(route, given) ==
    IF route.path_mode = "single"
    THEN IF route.insensitive_path = toLowerCase(given) THEN Found(<<>>) ELSE Null
    ELSE IF startsWith(toLowerCase(given), route.insensitive_path)
         THEN Found(substring(given, Len(route.path)))
         ELSE Null

\* Mutant of string_excludes: compares without regard to letter case.
string_excludes_insensitive(url_path, exclude) == toLowerCase(url_path) = toLowerCase(exclude)

\* url_path === exclude, for a literal entry of exclude_paths.
string_excludes(url_path, exclude) == url_path = exclude

\* The loop over options.exclude_paths in middleware(), from entry k on: whether an
\* entry excluded the path, the entries consulted, and the lastIndex of each RegExp
\* afterwards.
RECURSIVE exclude_loop(_, _, _, _)
exclude_loop(matchers, lis, url_path, k) ==
    IF k > Len(matchers)
    THEN [excluded |-> FALSE, consulted |-> <<>>, lis |-> lis]
    ELSE LET exclude == matchers[k]
             t == IF exclude.kind = "string"
                  THEN [result |-> string_excludes(url_path, exclude.value),
                        lastIndex |-> lis[k]]
                  ELSE RegExpTest(exclude, lis[k], url_path)
             lis2 == [lis EXCEPT ![k] = t.lastIndex]
         IN  IF t.result
             THEN [excluded |-> TRUE, consulted |-> <<k>>, lis |-> lis2]
             ELSE LET rest == exclude_loop(matchers, lis2, url_path, k + 1)
                  IN  [rest EXCEPT !.consulted = <<k>> \o @]

\* Mutant of Fetch: only `forward` turns the following of redirects off.
Fetch_follows_unless_forward(route, request, request_headers, target_url) ==
    [url |-> target_url,
     headers |-> request_headers,
     method |-> request.method,
     body |-> IF request.hasBody THEN request.body ELSE Undefined,
     redirect |-> IF route.redirect_policy = "forward" THEN "manual" ELSE "follow"]

\* The outbound call and the first lines of resolve_response: fetch(target_url, ...).
Fetch(route, request, request_headers, target_url) ==
    [url |-> target_url,
     headers |-> request_headers,
     method |-> request.method,
     body |-> IF request.hasBody THEN request.body ELSE Undefined,
     redirect |-> IF route.redirect_policy = "follow" THEN "follow" ELSE "manual"]

\* Mutant of Reply: the Response is built without the upstream's status, which
\* leaves it at the default of 200.
Reply_default_status(upstream, headers) ==
    [kind |-> "response", status |-> 200, statusText |-> "",
     headers |-> headers, body |-> upstream.body]

\* reply() in resolve_response: a Response with the upstream's body, status and
\* status text, and the given headers.
Reply(upstream, headers) ==
    [kind |-> "response", status |-> upstream.status, statusText |-> upstream.statusText,
     headers |-> headers, body |-> upstream.body]

\* Mutant of rewrite_location: the rewritten URL is built from the outbound URL
\* instead of the inbound request's URL.
rewrite_location_outbound_url(route, url, target_url, upstream) ==
    LET headers == upstream.headers
        location == upstream.headers.location
    IN  IF location.kind \in {"absent", "empty"} THEN [kind |-> "null"]
        ELSE IF location.kind # "absolute" THEN [kind |-> "throw", error |-> "TypeError"]
        ELSE LET target == location
             IN  IF /\ target.origin = target_url.origin
                    /\ startsWith(target.pathname, route.target.pathname)
                 THEN LET where_to_go ==
                              substring(target.pathname, Len(route.target.pathname))
                          rewritten_url ==
                              [target_url EXCEPT
                                  !.pathname = SetPathname(route.path \o where_to_go)]
                      IN  Reply(upstream, [headers EXCEPT !.location = Href(rewritten_url)])
                 ELSE Reply(upstream, headers)

\* Mutant of rewrite_location: rewrites when the origin or the path prefix matches.
rewrite_location_either(route, url, target_url, upstream) ==
    LET headers == upstream.headers
        location == upstream.headers.location
    IN  IF location.kind \in {"absent", "empty"} THEN [kind |-> "null"]
        ELSE IF location.kind # "absolute" THEN [kind |-> "throw", error |-> "TypeError"]
        ELSE LET target == location
             IN  IF \/ target.origin = target_url.origin
                    \/ startsWith(target.pathname, route.target.pathname)
                 THEN LET where_to_go ==
                              substring(target.pathname, Len(route.target.pathname))
                          rewritten_url ==
                              [url EXCEPT !.pathname = SetPathname(route.path \o where_to_go)]
                      IN  Reply(upstream, [headers EXCEPT !.location = Href(rewritten_url)])
                 ELSE Reply(upstream, headers)

\* Mutant of rewrite_location: a 301 without a Location value is relayed.
rewrite_location_relays_missing(route, url, target_url, upstream) ==
    LET headers == upstream.headers
        location == upstream.headers.location
    IN  IF location.kind \in {"absent", "empty"} THEN Reply(upstream, headers)
        ELSE IF location.kind # "absolute" THEN [kind |-> "throw", error |-> "TypeError"]
        ELSE LET target == location
             IN  IF /\ target.origin = target_url.origin
                    /\ startsWith(target.pathname, route.target.pathname)
                 THEN LET where_to_go ==
                              substring(target.pathname, Len(route.target.pathname))
                          rewritten_url ==
                              [url EXCEPT !.pathname = SetPathname(route.path \o where_to_go)]
                      IN  Reply(upstream, [headers EXCEPT !.location = Href(rewritten_url)])
                 ELSE Reply(upstream, headers)

\* The branch of resolve_response for a 301 under `rewrite`: null without a Location
\* value, the TypeError of new URL(location), or the reply, with Location rewritten
\* when it has the outbound URL's origin and a path under the target's path.
rewrite_location(route, url, target_url, upstream) ==
    LET headers == upstream.headers
        location == upstream.headers.location
    IN  IF location.kind \in {"absent", "empty"} THEN [kind |-> "null"]
        ELSE IF location.kind # "absolute" THEN [kind |-> "throw", error |-> "TypeError"]
        ELSE LET target == location
             IN  IF /\ target.origin = target_url.origin
                    /\ startsWith(target.pathname, route.target.pathname)
                 THEN LET where_to_go ==
                              substring(target.pathname, Len(route.target.pathname))
                          rewritten_url ==
                              [url EXCEPT !.pathname = SetPathname(route.path \o where_to_go)]
                      IN  Reply(upstream, [headers EXCEPT !.location = Href(rewritten_url)])
                 ELSE Reply(upstream, headers)

\* Mutant of resolve_response: declines every error status, not only 404.
resolve_response_declines_errors(route, url, target_url, upstream) ==
    IF upstream.status >= 400 THEN [kind |-> "null"]
    ELSE IF upstream.status = MovedPermanently /\ route.redirect_policy = "rewrite"
    THEN rewrite_location(route, url, target_url, upstream)
    ELSE Reply(upstream, upstream.headers)

\* Mutant of resolve_response: looks for a 404 only when it handles redirects itself.
resolve_response_relays_404(route, url, target_url, upstream) ==
    IF upstream.status = NotFound /\ route.redirect_policy # "follow" THEN [kind |-> "null"]
    ELSE IF upstream.status = MovedPermanently /\ route.redirect_policy = "rewrite"
    THEN rewrite_location(route, url, target_url, upstream)
    ELSE Reply(upstream, upstream.headers)

\* resolve_response after the await of fetch: null, a Response, or the TypeError that
\* new URL(location) throws.
resolve_response(route, url, target_url, upstream) ==
    IF upstream.status = NotFound THEN [kind |-> "null"]
    ELSE IF upstream.status = MovedPermanently /\ route.redirect_policy = "rewrite"
    THEN rewrite_location(route, url, target_url, upstream)
    ELSE Reply(upstream, upstream.headers)

\* Mutant of includes_method: every method passes.
includes_method_always(route, request) == TRUE

\* this.methods.includes(ctx.request.method)
includes_method(route, request) == request.method \in Range(route.methods)

\* const proxy_url = new URL(this.target); proxy_url.pathname += found;
proxy_url(route, found) == [route.target EXCEPT !.pathname = SetPathname(@ \o found.rest)]

\* middleware() up to its first await that suspends: the route declines (it calls
\* next), throws, or issues its outbound call.  lis is the lastIndex of the RegExp
\* objects of the route's exclude_paths.
middleware_start(route, lis, request) ==
    IF ~includes_method(route, request)
    THEN [kind |-> "next", why |-> "method", consulted |-> <<>>, lis |-> lis]
    ELSE IF IsMalformed(request.url.pathname)
    THEN [kind |-> "throw", error |-> "URIError", consulted |-> <<>>, lis |-> lis]
    ELSE LET url_path == decodeURIComponent(request.url.pathname)
             found == get_target_path(route, url_path)
         IN  IF ~found.found
             THEN [kind |-> "next", why |-> "path", consulted |-> <<>>, lis |-> lis]
             ELSE LET ex == exclude_loop(route.options.exclude_paths, lis, url_path, 1)
                  IN  IF ex.excluded
                      THEN [kind |-> "next", why |-> "excluded",
                            consulted |-> ex.consulted, lis |-> ex.lis]
                      ELSE LET headers == [request.headers EXCEPT !.host = route.target.host]
                           IN  [kind |-> "fetch", consulted |-> ex.consulted, lis |-> ex.lis,
                                call |-> Fetch(route, request, headers,
                                               proxy_url(route, found))]

\* ------------------------------------------------------------------ ProxyRouter

Path_a == <<"/", "a">>

Path_ah == <<"/", "a", "/", "h">>

Path_ax == <<"/", "a", "/", "x">>

Path_space == <<"/", " ">>

Target_b == URL("https://up", "up", <<"/", "b">>, "")

Target_root == URL("https://up2", "up2", <<"/">>, "")

\* A target string that new URL(target) rejects with a TypeError.
MalformedTarget == [invalid |-> "up/b"]

IsMalformedTarget(target) == "invalid" \in DOMAIN target

NoOptions == [path_mode |-> Undefined, redirect |-> Undefined, exclude_paths |-> <<>>]

Root == [path_mode |-> "root", redirect |-> Undefined, exclude_paths |-> <<>>]

RootRewrite ==
    [path_mode |-> "root", redirect |-> "rewrite",
     exclude_paths |-> <<StringMatcher(Path_ax), RegExpMatcher(<<"x">>, TRUE)>>]

RootForward ==
    [path_mode |-> "root", redirect |-> "forward",
     exclude_paths |-> <<RegExpMatcher(<<"h">>, FALSE)>>]

SingleRewrite == [path_mode |-> Undefined, redirect |-> "rewrite", exclude_paths |-> <<>>]

RootLiteral ==
    [path_mode |-> "root", redirect |-> "forward",
     exclude_paths |-> <<StringMatcher(Path_ax)>>]

\* Mutant of Register: the new route is put in front of the others (unshift).
Register_in_front(name, methods, path, target, options) ==
    /\ built = "none"
    /\ Len(routes) < MaxRoutes
    /\ IF IsMalformedTarget(target)
       THEN /\ built' = "invalid target"
            /\ UNCHANGED <<routes, lastIndex, calls>>
       ELSE /\ routes' = <<ProxyRoute(methods, path, target, options)>> \o routes
            /\ lastIndex' = <<[k \in 1..Len(options.exclude_paths) |-> 0]>> \o lastIndex
            /\ calls' = Append(calls, [name |-> name, path |-> path, target |-> target,
                                       options |-> options])
            /\ UNCHANGED built
    /\ UNCHANGED <<pc, req, cur, outbound, response, nextCalls, log, probe>>

\* this.routes.push(new ProxyRoute(methods, path, new URL(target), options)); the
\* RegExp objects of the options start with lastIndex 0.  new URL(target) throws on a
\* malformed target before anything is pushed, which ends the configuration.
Register(name, methods, path, target, options) ==
    /\ built = "none"
    /\ Len(routes) < MaxRoutes
    /\ IF IsMalformedTarget(target)
       THEN /\ built' = "invalid target"
            /\ UNCHANGED <<routes, lastIndex, calls>>
       ELSE /\ routes' = Append(routes, ProxyRoute(methods, path, target, options))
            /\ lastIndex' = Append(lastIndex, [k \in 1..Len(options.exclude_paths) |-> 0])
            /\ calls' = Append(calls, [name |-> name, path |-> path, target |-> target,
                                       options |-> options])
            /\ UNCHANGED built
    /\ UNCHANGED <<pc, req, cur, outbound, response, nextCalls, log, probe>>

\* ProxyRouter.all
all ==
    \/ \E options \in {NoOptions, Root, RootRewrite, RootForward, RootLiteral} :
          Register("all", ALL_HTTP_METHODS, Path_a, Target_b, options)
    \/ Register("all", ALL_HTTP_METHODS, Path_a, MalformedTarget, NoOptions)

\* ProxyRouter.delete
delete == Register("delete", <<"DELETE">>, Path_a, Target_root, NoOptions)

\* ProxyRouter.get
get ==
    \E target \in {Target_b, Target_root}, options \in {NoOptions, SingleRewrite} :
        Register("get", <<"GET">>, Path_ah, target, options)

\* ProxyRouter.head
head == Register("head", <<"HEAD">>, Path_a, Target_root, NoOptions)

\* ProxyRouter.options
options == Register("options", <<"OPTIONS">>, Path_a, Target_root, NoOptions)

\* ProxyRouter.patch
patch == Register("patch", <<"PATCH">>, Path_a, Target_root, NoOptions)

\* ProxyRouter.post
post == Register("post", <<"POST">>, Path_a, Target_root, NoOptions)

\* ProxyRouter.put
put == Register("put", <<"PUT">>, Path_space, Target_b, SingleRewrite)

\* Mutant of proxy: does not look for an empty router.
proxy_never_throws ==
    /\ built = "none"
    /\ built' = IF Len(routes) <= 1 THEN "single" ELSE "composed"
    /\ UNCHANGED <<routes, lastIndex, pc, req, cur, outbound, response, nextCalls, log, probe, calls>>

\* ProxyRouter.proxy: throws without routes, returns the only route's middleware, or
\* composes the middlewares of all routes in order.
proxy ==
    /\ built = "none"
    /\ built' = IF Len(routes) = 0 THEN "threw"
                ELSE IF Len(routes) = 1 THEN "single"
                ELSE "composed"
    /\ UNCHANGED <<routes, lastIndex, pc, req, cur, outbound, response, nextCalls, log, probe, calls>>

\* ------------------------------------------------------------------ the request pipeline

NoRequest == [state |-> "none"]

NoCall == [state |-> "none"]

NoResponse == [written |-> FALSE]

\* ctx.request of an inbound request.
Request(method, pathname) ==
    [method |-> method,
     url |-> URL("http://proxy", "proxy", pathname, "?q"),
     headers |-> [host |-> "proxy", accept |-> "text/html"],
     hasBody |-> method \in {"PATCH", "POST", "PUT"},
     body |-> "request-body"]

\* The inbound requests: GET for every pathname, the other methods for /a, and PUT for
\* the escaped "/ ".  TRACE is a method outside HttpMethod.
RequestPathnames ==
    {Path_a, <<"/", "A">>, Path_ah, Path_ax, <<"/", "A", "/", "x">>,
     <<"/", "%41", "/", "%20">>, <<"/", "h">>, <<"/", "a", "%">>}

Requests ==
    {Request("GET", p) : p \in RequestPathnames}
        \cup {Request(m, Path_a) : m \in Range(ALL_HTTP_METHODS) \cup {"TRACE"}}
        \cup {Request("PUT", <<"/", "%20">>)}

Loc_same == AbsoluteLocation(URL("https://up", "up", <<"/", "b", "/", "h">>, "?s"))

Loc_sibling == AbsoluteLocation(URL("https://up", "up", <<"/", "b", "x">>, ""))

Loc_other_path == AbsoluteLocation(URL("https://up", "up", <<"/", "x">>, ""))

Loc_other_origin == AbsoluteLocation(URL("https://other", "other", <<"/", "b", "/", "h">>, ""))

Loc_up2 == AbsoluteLocation(URL("https://up2", "up2", <<"/", "h">>, ""))

Loc_relative == RelativeLocation(<<"/", "b", "/", "h">>)

UpstreamResponse(status, statusText, location) ==
    [status |-> status, statusText |-> statusText,
     headers |-> [location |-> location, server |-> "upstream"],
     body |-> "upstream-body"]

\* What fetch() can resolve to.  With redirect: "follow" fetch follows a redirect that
\* has a Location itself, so a 301 is seen only without one; with redirect: "manual"
\* the raw redirect is seen.
UpstreamResponses(call) ==
    {UpstreamResponse(200, "OK", NoLocation),
     UpstreamResponse(201, "Created", Loc_same),
     UpstreamResponse(NotFound, "Not Found", NoLocation),
     UpstreamResponse(500, "Internal Server Error", NoLocation),
     UpstreamResponse(MovedPermanently, "Moved Permanently", NoLocation),
     UpstreamResponse(MovedPermanently, "Moved Permanently", EmptyLocation)}
        \cup IF call.redirect = "follow" THEN {}
             ELSE {UpstreamResponse(MovedPermanently, "Moved Permanently", l) :
                      l \in {Loc_same, Loc_sibling, Loc_other_path, Loc_other_origin,
                             Loc_up2, Loc_relative}}

\* Mutant of CallNext: the composed middleware is not given the pipeline's next stage.
CallNext_without_next_stage(newlog) ==
    IF built = "composed" /\ cur < Len(routes)
    THEN /\ cur' = cur + 1
         /\ pc' = "dispatch"
         /\ log' = newlog
         /\ UNCHANGED nextCalls
    ELSE IF built = "composed"
    THEN /\ pc' = "done"
         /\ log' = newlog
         /\ UNCHANGED <<cur, nextCalls>>
    ELSE /\ nextCalls' = nextCalls + 1
         /\ pc' = "done"
         /\ log' = Append(newlog, [ev |-> "next-stage", route |-> cur])
         /\ UNCHANGED cur

\* Mutant of CallNext: the composed middleware dispatches the same route again.
CallNext_same_route(newlog) ==
    IF built = "composed" /\ cur < Len(routes)
    THEN /\ cur' = cur
         /\ pc' = "dispatch"
         /\ log' = newlog
         /\ UNCHANGED nextCalls
    ELSE /\ nextCalls' = nextCalls + 1
         /\ pc' = "done"
         /\ log' = Append(newlog, [ev |-> "next-stage", route |-> cur])
         /\ UNCHANGED cur

\* A route calls the `next` it was given.  In the composed middleware that is
\* dispatch(i + 1), which runs the next route or, after the last one, the pipeline's
\* next stage; the middleware of a single route is given the pipeline's next stage.
CallNext(newlog) ==
    IF built = "composed" /\ cur < Len(routes)
    THEN /\ cur' = cur + 1
         /\ pc' = "dispatch"
         /\ log' = newlog
         /\ UNCHANGED nextCalls
    ELSE /\ nextCalls' = nextCalls + 1
         /\ pc' = "done"
         /\ log' = Append(newlog, [ev |-> "next-stage", route |-> cur])
         /\ UNCHANGED cur

\* The pipeline hands a request to the middleware that proxy() returned.
Receive ==
    /\ pc = "idle"
    /\ built \in {"single", "composed"}
    /\ \E request \in Requests : req' = request
    /\ cur' = 1
    /\ pc' = "dispatch"
    /\ UNCHANGED <<routes, lastIndex, built, outbound, response, nextCalls, log, probe, calls>>

\* The middleware of route cur runs up to its await of fetch.
RouteMiddleware ==
    /\ pc = "dispatch"
    /\ LET r == middleware_start(routes[cur], lastIndex[cur], req)
           consulted == [k \in 1..Len(r.consulted) |->
                            [ev |-> "consult", route |-> cur, entry |-> r.consulted[k]]]
       IN  /\ lastIndex' = [lastIndex EXCEPT ![cur] = r.lis]
           /\ CASE r.kind = "next" ->
                     /\ CallNext(log \o consulted \o
                                 <<[ev |-> "decline", route |-> cur, why |-> r.why]>>)
                     /\ UNCHANGED outbound
                [] r.kind = "throw" ->
                     /\ pc' = "error"
                     /\ log' = Append(log, [ev |-> "throw", route |-> cur, error |-> r.error])
                     /\ UNCHANGED <<cur, nextCalls, outbound>>
                [] r.kind = "fetch" ->
                     /\ pc' = "fetching"
                     /\ outbound' = r.call
                     /\ log' = log \o consulted \o
                               <<[ev |-> "fetch", route |-> cur, call |-> r.call]>>
                     /\ UNCHANGED <<cur, nextCalls>>
    /\ UNCHANGED <<routes, built, req, response, probe, calls>>

\* fetch() resolves: the rest of resolve_response and of the middleware of route cur.
UpstreamResponds ==
    /\ pc = "fetching"
    /\ \E upstream \in UpstreamResponses(outbound) :
          LET r == resolve_response(routes[cur], req.url, outbound.url, upstream)
              seen == [ev |-> "upstream", route |-> cur, response |-> upstream]
          IN  CASE r.kind = "null" ->
                     /\ CallNext(log \o <<seen, [ev |-> "decline", route |-> cur,
                                                 why |-> "upstream"]>>)
                     /\ UNCHANGED response
                [] r.kind = "throw" ->
                     /\ pc' = "error"
                     /\ log' = log \o <<seen, [ev |-> "throw", route |-> cur,
                                               error |-> r.error]>>
                     /\ UNCHANGED <<cur, nextCalls, response>>
                [] r.kind = "response" ->
                     /\ response' = [written |-> TRUE, by |-> cur, headers |-> r.headers,
                                     body |-> r.body, status |-> r.status]
                     /\ pc' = "done"
                     /\ log' = log \o <<seen, [ev |-> "write", route |-> cur]>>
                     /\ UNCHANGED <<cur, nextCalls>>
    /\ outbound' = NoCall
    /\ UNCHANGED <<routes, lastIndex, built, req, probe, calls>>

\* Mutant of UpstreamFails: the route catches the rejection and calls next.
UpstreamFails_caught ==
    /\ pc = "fetching"
    /\ outbound' = NoCall
    /\ CallNext(Append(log, [ev |-> "throw", route |-> cur, error |-> "fetch failed"]))
    /\ UNCHANGED <<routes, lastIndex, built, req, response, probe, calls>>

\* fetch() rejects (connection refused, timeout, DNS failure): the error leaves
\* resolve_response and the middleware.
UpstreamFails ==
    /\ pc = "fetching"
    /\ pc' = "error"
    /\ outbound' = NoCall
    /\ log' = Append(log, [ev |-> "throw", route |-> cur, error |-> "fetch failed"])
    /\ UNCHANGED <<routes, lastIndex, built, req, cur, response, nextCalls, probe, calls>>

\* The request is over; the pipeline is ready for the next one.
Finish ==
    /\ pc \in {"done", "error"}
    /\ pc' = "idle"
    /\ req' = NoRequest
    /\ cur' = 0
    /\ response' = NoResponse
    /\ nextCalls' = 0
    /\ log' = <<>>
    /\ UNCHANGED <<routes, lastIndex, built, outbound, probe, calls>>

Init ==
    /\ routes = <<>>
    /\ lastIndex = <<>>
    /\ built = "none"
    /\ pc = "idle"
    /\ req = NoRequest
    /\ cur = 0
    /\ outbound = NoCall
    /\ response = NoResponse
    /\ nextCalls = 0
    /\ log = <<>>
    /\ probe = [state |-> "none"]
    /\ calls = <<>>

Next ==
    \/ all
    \/ delete
    \/ get
    \/ head
    \/ options
    \/ patch
    \/ post
    \/ put
    \/ proxy
    \/ Receive
    \/ RouteMiddleware
    \/ UpstreamResponds
    \/ UpstreamFails
    \/ Finish

Spec == Init /\ [][Next]_vars

\* ------------------------------------------------------------------ SpecPath

RECURSIVE StringsOver(_, _)
StringsOver(alphabet, n) ==
    IF n = 0 THEN {<<>>}
    ELSE LET shorter == StringsOver(alphabet, n - 1)
         IN  shorter \cup {<<c>> \o s : c \in alphabet, s \in {t \in shorter : Len(t) = n - 1}}

ProbeChars == {"I", "i", "Idot", "dot"}

ProbePaths == StringsOver(ProbeChars, MaxPathLen)

\* A route as the constructor builds it, for a local path and a path mode.
ProbeRoute(path, mode) ==
    ProxyRoute(ALL_HTTP_METHODS, path, Target_b,
               [path_mode |-> mode, redirect |-> Undefined, exclude_paths |-> <<>>])

InitPath ==
    /\ routes = <<>>
    /\ lastIndex = <<>>
    /\ built = "none"
    /\ pc = "idle"
    /\ req = NoRequest
    /\ cur = 0
    /\ outbound = NoCall
    /\ response = NoResponse
    /\ nextCalls = 0
    /\ log = <<>>
    /\ calls = <<>>
    /\ \E path \in ProbePaths, given \in ProbePaths, mode \in {"single", "root"} :
          probe = [state |-> "given", route |-> ProbeRoute(path, mode), given |-> given]

ApplyGetTargetPath ==
    /\ probe.state = "given"
    /\ LET found == get_target_path(probe.route, probe.given)
       IN  probe' = [probe EXCEPT !.state = "applied"] @@
                    [result |-> found,
                     proxy_url |-> IF found.found THEN proxy_url(probe.route, found)
                                   ELSE probe.route.target]
    /\ UNCHANGED <<routes, lastIndex, built, pc, req, cur, outbound, response, nextCalls, log,
                   calls>>

NextPath == ApplyGetTargetPath

SpecPath == InitPath /\ [][NextPath]_vars

\* ------------------------------------------------------------------ claims on path matching

CaseInsensitiveEqual(s, t) == toLowerCase(s) = toLowerCase(t)

IsSuffix(r, s) == Len(r) <= Len(s) /\ SubSeq(s, Len(s) - Len(r) + 1, Len(s)) = r

\* C8: in `single` mode get_target_path matches if and only if the request path is
\* case-insensitively equal to the local path, and the remainder of a match is the
\* empty string, so that the path of the outbound URL is the target's path.
C8_SingleModeMatch ==
    (probe.state = "applied" /\ probe.route.path_mode = "single") =>
        /\ probe.result.found <=> CaseInsensitiveEqual(probe.given, probe.route.path)
        /\ probe.result.found =>
              /\ probe.result.rest = <<>>
              /\ probe.proxy_url.pathname = probe.route.target.pathname

\* A single-mode route matched a request path written in another letter case.
C8_Witness ==
    /\ probe.state = "applied"
    /\ probe.route.path_mode = "single"
    /\ probe.result.found
    /\ probe.given # probe.route.path
    /\ probe.route.path # <<>>

\* C9: in `root` mode, whenever get_target_path returns a remainder r, the local path
\* (original case) followed by r is case-insensitively equal to the request path, and
\* r is a suffix of the request path in its original letter case.
C9_RootModeRemainder ==
    (probe.state = "applied" /\ probe.route.path_mode = "root" /\ probe.result.found) =>
        /\ CaseInsensitiveEqual(probe.route.path \o probe.result.rest, probe.given)
        /\ IsSuffix(probe.result.rest, probe.given)

\* ------------------------------------------------------------------ claims on the pipeline

LogIndex == 1..Len(log)

\* The route of event i observed an upstream response.
IsUpstream(i) == log[i].ev = "upstream"

\* The upstream has answered and the request is over without an error.
Answered(i) == IsUpstream(i) /\ pc = "done"

\* C1 as stated: once a route's upstream has answered with a status other than 404,
\* no route registered after it issues an outbound call or writes the response.
C1_Not404StopsLaterRoutes ==
    \A i \in LogIndex, j \in LogIndex :
        (/\ IsUpstream(i)
         /\ log[i].response.status # NotFound
         /\ i < j
         /\ log[j].ev \in {"fetch", "write"}) => log[j].route <= log[i].route

\* The upstream responses a route declines: 404, and under `rewrite` a 301 without a
\* Location value.
IsDeclined(route, upstream) ==
    \/ upstream.status = NotFound
    \/ /\ upstream.status = MovedPermanently
       /\ route.redirect_policy = "rewrite"
       /\ upstream.headers.location.kind \in {"absent", "empty"}

\* C1 (amended): the routes are tried in registration order, none skipped, and once a
\* route's upstream has answered with a response that the route does not decline (not
\* a 404, and not a 301 without Location under `rewrite`), no route registered after
\* it issues an outbound call or writes the response.
C1_FirstHandlerWins ==
    /\ \A i \in LogIndex, j \in LogIndex : i < j => log[i].route <= log[j].route
    /\ \A i \in LogIndex : \A r \in 1..log[i].route : \E j \in 1..i : log[j].route = r
    /\ \A i \in LogIndex, j \in LogIndex :
          (/\ IsUpstream(i)
           /\ ~IsDeclined(routes[log[i].route], log[i].response)
           /\ i < j
           /\ log[j].ev \in {"fetch", "write"}) => log[j].route <= log[i].route

\* A root-mode route for /a registered before a single-mode route for /a/h handled a
\* request for /a/h: the second route, the more specific match, did nothing.
C1_Witness ==
    /\ Len(routes) = 2
    /\ routes[1].path_mode = "root" /\ routes[1].path = Path_a
    /\ routes[2].path_mode = "single" /\ routes[2].path = Path_ah
    /\ req # NoRequest /\ req.method = "GET" /\ req.url.pathname = Path_ah
    /\ pc = "done" /\ response.written /\ response.by = 1
    /\ \A i \in LogIndex : log[i].route = 1

\* C2: a route that observes an upstream 404 writes nothing to the client response and
\* calls its continuation, under every redirect policy; no 404 of an upstream is
\* written to the client response.
C2_NotFoundFallsThrough ==
    /\ \A i \in LogIndex :
          (IsUpstream(i) /\ log[i].response.status = NotFound) =>
              /\ i < Len(log)
              /\ log[i + 1].ev = "decline" /\ log[i + 1].route = log[i].route
              /\ ~\E j \in LogIndex : log[j].ev = "write" /\ log[j].route = log[i].route
              /\ ~(response.written /\ response.by = log[i].route)
    /\ response.written => response.status # NotFound

\* Two routes of different policies (`rewrite` and the default `follow`) both got a 404
\* from their upstreams and the pipeline's next stage ran.
C2_Witness ==
    /\ pc = "done" /\ nextCalls = 1 /\ ~response.written
    /\ \E i \in LogIndex, j \in LogIndex :
          /\ IsUpstream(i) /\ log[i].response.status = NotFound
          /\ routes[log[i].route].redirect_policy = "rewrite"
          /\ IsUpstream(j) /\ log[j].response.status = NotFound
          /\ routes[log[j].route].redirect_policy = "follow"

Writes == {i \in LogIndex : log[i].ev = "write"}

\* C3: a request that ends without an error ends in exactly one of two ways: one route
\* wrote the response (status, headers, body) and the next stage was not invoked, or no
\* route wrote anything and the next stage was invoked exactly once.
C3_RespondedOrContinued ==
    /\ pc = "done" =>
          \/ /\ response.written /\ Cardinality(Writes) = 1 /\ nextCalls = 0
             /\ {"status", "headers", "body"} \subseteq DOMAIN response
          \/ /\ ~response.written /\ Writes = {} /\ nextCalls = 1
    /\ pc \in {"dispatch", "fetching"} => ~response.written /\ Writes = {} /\ nextCalls = 0

\* Several routes: the last one asked its upstream, declined the answer, and the next
\* stage was invoked once.
C3_Witness ==
    /\ built = "composed"
    /\ pc = "done" /\ nextCalls = 1 /\ ~response.written
    /\ \E i \in LogIndex : IsUpstream(i) /\ log[i].route = Len(routes)

\* The 301 of event i can be rewritten: policy `rewrite`, a Location of the outbound
\* target's origin whose path starts with the route target's base path.
Rewritable(i) ==
    LET route == routes[log[i].route]
        location == log[i].response.headers.location
    IN  /\ log[i].response.status = MovedPermanently
        /\ route.redirect_policy = "rewrite"
        /\ location.kind = "absolute"
        /\ location.origin = route.target.origin
        /\ startsWith(location.pathname, route.target.pathname)

\* C4: under `rewrite`, a 301 whose Location has the outbound target's origin and a
\* path under the target's base path reaches the client as a 301 whose Location is the
\* inbound request's URL with its path replaced by local_path followed by the redirect
\* path minus the base path (a URL path: the characters of local_path that a URL path
\* cannot hold are percent-encoded).
C4_LocationRewritten ==
    \A i \in LogIndex :
        (Answered(i) /\ Rewritable(i)) =>
            LET route == routes[log[i].route]
                location == log[i].response.headers.location
                rest == substring(location.pathname, Len(route.target.pathname))
            IN  /\ response.written /\ response.by = log[i].route
                /\ response.status = MovedPermanently
                /\ response.headers.location =
                       Href([req.url EXCEPT !.pathname = SetPathname(route.path \o rest)])
                /\ decodeURIComponent(response.headers.location.pathname) =
                       route.path \o decodeURIComponent(rest)

\* Local path /a, target https://up/b, upstream Location https://up/b/h?s: the client
\* got a 301 with Location http://proxy/a/h?q.
C4_Witness ==
    /\ pc = "done" /\ response.written /\ response.status = MovedPermanently
    /\ \E i \in LogIndex : IsUpstream(i) /\ log[i].response.headers.location = Loc_same
    /\ response.headers.location =
           AbsoluteLocation(URL("http://proxy", "proxy", <<"/", "a", "/", "h">>, "?q"))

\* C5: under `rewrite`, a 301 whose parsable Location has another origin, or a path not
\* under the target's base path, reaches the client as a 301 with the upstream's
\* Location unmodified.
C5_LocationForwarded ==
    \A i \in LogIndex :
        (/\ Answered(i)
         /\ log[i].response.status = MovedPermanently
         /\ routes[log[i].route].redirect_policy = "rewrite"
         /\ log[i].response.headers.location.kind = "absolute"
         /\ ~Rewritable(i)) =>
            /\ response.written /\ response.by = log[i].route
            /\ response.status = MovedPermanently
            /\ response.headers.location = log[i].response.headers.location

\* A `rewrite` route relayed a 301 whose Location is of another origin but has a path
\* under the base path.
C5_Witness ==
    /\ pc = "done" /\ response.written /\ response.status = MovedPermanently
    /\ routes[response.by].redirect_policy = "rewrite"
    /\ response.headers.location = Loc_other_origin

\* The decoded request path is excluded by an entry of the route's exclude_paths: it
\* equals a literal entry, or a pattern entry matches somewhere in it.
IsExcludedPath(route, url_path) ==
    \E k \in 1..Len(route.options.exclude_paths) :
        LET exclude == route.options.exclude_paths[k]
        IN  IF exclude.kind = "string" THEN url_path = exclude.value
            ELSE Matches(exclude.source, url_path)

\* C6: a route issues no outbound call for a request whose decoded path equals a
\* literal entry of exclude_paths or is matched by a pattern entry, and calls the next
\* stage; the entries are consulted in list order, up to the first that matches, and
\* only after the method and path checks passed.
C6_ExcludedNotForwarded ==
    /\ \A i \in LogIndex :
          log[i].ev = "fetch" =>
              ~IsExcludedPath(routes[log[i].route], decodeURIComponent(req.url.pathname))
    /\ \A i \in LogIndex :
          log[i].ev = "consult" =>
              /\ req.method \in Range(routes[log[i].route].methods)
              /\ get_target_path(routes[log[i].route],
                                 decodeURIComponent(req.url.pathname)).found
              /\ \A j \in 1..(i - 1) :
                    (log[j].ev = "consult" /\ log[j].route = log[i].route) =>
                        log[j].entry < log[i].entry

\* C7: a route does nothing but call the next stage for a request whose method is not
\* in its method set; a route registered with `all` has the seven methods and one
\* registered with a per-method call has that method alone.
C7_MethodFilter ==
    /\ \A i \in LogIndex :
          req.method \notin Range(routes[log[i].route].methods) =>
              /\ log[i].ev \in {"decline", "next-stage"}
              /\ log[i].ev = "decline" => log[i].why = "method"
    /\ Len(calls) = Len(routes)
    /\ \A r \in 1..Len(routes) :
          Range(routes[r].methods) =
              CASE calls[r].name = "all" ->
                       {"DELETE", "GET", "HEAD", "OPTIONS", "PATCH", "POST", "PUT"}
                [] calls[r].name = "delete" -> {"DELETE"}
                [] calls[r].name = "get" -> {"GET"}
                [] calls[r].name = "head" -> {"HEAD"}
                [] calls[r].name = "options" -> {"OPTIONS"}
                [] calls[r].name = "patch" -> {"PATCH"}
                [] calls[r].name = "post" -> {"POST"}
                [] calls[r].name = "put" -> {"PUT"}

\* A route registered with `post` declined a PUT for its path, and the route after it,
\* registered with `all`, forwarded it.
C7_Witness ==
    /\ Len(routes) = 2
    /\ calls[1].name = "post" /\ calls[2].name = "all"
    /\ req # NoRequest /\ req.method = "PUT"
    /\ Len(log) >= 2
    /\ log[1] = [ev |-> "decline", route |-> 1, why |-> "method"]
    /\ log[2].ev = "fetch" /\ log[2].route = 2

\* C10: proxy() throws exactly when the router has no route, and then there is no
\* handler for any request; with one or more routes it returns a handler.
C10_NoRoutesThrows ==
    /\ built = "threw" => Len(routes) = 0 /\ pc = "idle" /\ req = NoRequest
    /\ built \in {"single", "composed"} => Len(routes) >= 1
    /\ built = "none" => pc = "idle"

\* proxy() was called on a router without routes.
C10_Witness == built = "threw" /\ Len(routes) = 0

\* The client response is the upstream's response: status, headers and body.
RelayedVerbatim(upstream) ==
    /\ response.status = upstream.status
    /\ response.headers = upstream.headers
    /\ response.body = upstream.body

\* C11: an upstream response whose status is not 404 and is not a 301 under `rewrite`
\* is written to the client response by the route that received it with the same
\* status, the same headers (Location included, none added, removed or changed) and
\* the same body.
C11_RelayedVerbatim ==
    \A i \in LogIndex :
        (/\ Answered(i)
         /\ log[i].response.status # NotFound
         /\ ~(/\ log[i].response.status = MovedPermanently
              /\ routes[log[i].route].redirect_policy = "rewrite")) =>
            /\ response.written
            /\ response.by = log[i].route
            /\ RelayedVerbatim(log[i].response)
            /\ i + 1 = Len(log) /\ log[i + 1] = [ev |-> "write", route |-> log[i].route]

\* A route with the policy `forward` relayed a 301 with its Location as it came, and
\* a route with the default policy relayed a 500.
C11_Witness ==
    \E i \in LogIndex :
        /\ Answered(i)
        /\ response.written
        /\ \/ /\ routes[log[i].route].redirect_policy = "forward"
              /\ log[i].response.status = MovedPermanently
              /\ log[i].response.headers.location = Loc_same
              /\ response.status = MovedPermanently
              /\ response.headers.location = Loc_same
           \/ /\ routes[log[i].route].redirect_policy = "follow"
              /\ log[i].response.status = 500
              /\ response.status = 500

\* The outbound calls recorded in the log.
Fetches == {i \in LogIndex : log[i].ev = "fetch"}

\* C12: an outbound call follows redirects by itself exactly when its route's policy
\* is `follow`, which is the policy of a route registered without the redirect
\* option; under `forward` and `rewrite` the redirect comes back to the route.  A
\* Location written to the client differs from the upstream's only under `rewrite`.
C12_RedirectMode ==
    /\ \A r \in 1..Len(routes) :
          routes[r].redirect_policy =
              IF calls[r].options.redirect = Undefined THEN "follow"
              ELSE calls[r].options.redirect
    /\ \A i \in Fetches :
          /\ log[i].call.redirect \in {"follow", "manual"}
          /\ log[i].call.redirect = "follow" <=>
                 routes[log[i].route].redirect_policy = "follow"
    /\ outbound # NoCall =>
          (outbound.redirect = "follow" <=> calls[cur].options.redirect = Undefined)
    /\ \A i \in LogIndex :
          (/\ Answered(i)
           /\ response.written
           /\ response.by = log[i].route
           /\ response.headers.location # log[i].response.headers.location) =>
              routes[log[i].route].redirect_policy = "rewrite"

\* An outbound call of a route with the policy `rewrite` is in flight with the
\* following of redirects turned off.
C12_Witness ==
    /\ pc = "fetching"
    /\ outbound # NoCall
    /\ routes[cur].redirect_policy = "rewrite"
    /\ calls[cur].options.redirect = "rewrite"
    /\ outbound.redirect = "manual"

\* C13 as stated: under `rewrite`, a 301 whose Location has a value that is not an
\* absolute URL raises no error in the route; the route declines it or relays it
\* verbatim.
C13_UnparsableLocationNoError ==
    \A i \in LogIndex :
        (/\ IsUpstream(i)
         /\ log[i].response.status = MovedPermanently
         /\ routes[log[i].route].redirect_policy = "rewrite"
         /\ log[i].response.headers.location.kind = "relative") =>
            /\ pc # "error"
            /\ i < Len(log)
            /\ \/ log[i + 1] = [ev |-> "decline", route |-> log[i].route, why |-> "upstream"]
               \/ /\ log[i + 1] = [ev |-> "write", route |-> log[i].route]
                  /\ response.written
                  /\ RelayedVerbatim(log[i].response)

\* C14: a rejected outbound call ends the request with that error: the route that
\* made the call does not call next, nothing is written to the client response, no
\* route is tried after it and no call is made again.  No route makes more than one
\* outbound call for a request.
C14_TransportFailurePropagates ==
    /\ \A i \in LogIndex :
          (log[i].ev = "throw" /\ log[i].error = "fetch failed") =>
              /\ pc = "error"
              /\ i = Len(log)
              /\ i > 1 /\ log[i - 1].ev = "fetch" /\ log[i - 1].route = log[i].route
              /\ cur = log[i].route
              /\ nextCalls = 0
              /\ ~response.written
              /\ outbound = NoCall
    /\ \A i \in Fetches, j \in Fetches : log[i].route = log[j].route => i = j

\* The outbound call of the first of two routes was rejected: the request ended with
\* the error and the second route was not tried.
C14_Witness ==
    /\ built = "composed" /\ Len(routes) = 2
    /\ pc = "error"
    /\ Len(log) > 1
    /\ log[Len(log)] = [ev |-> "throw", route |-> 1, error |-> "fetch failed"]
    /\ includes_method(routes[2], req)

\* The lastIndex of the matchers of a route as they were at registration.
FreshLastIndex(route) == [k \in 1..Len(route.options.exclude_paths) |-> 0]

\* C15 as stated: handling requests changes nothing that the routes hold, their
\* exclusion matchers included, and what a route does with a request does not depend
\* on the requests handled before: it is what the route as registered would do.
C15_NoStateChangedByRequests ==
    /\ \A r \in 1..Len(routes) : lastIndex[r] = FreshLastIndex(routes[r])
    /\ pc = "dispatch" =>
          middleware_start(routes[cur], lastIndex[cur], req).kind =
              middleware_start(routes[cur], FreshLastIndex(routes[cur]), req).kind

\* The route that a registration call makes.
RouteOfCall(call, route) ==
    /\ route.path = call.path
    /\ route.target = call.target
    /\ route.options = call.options

\* C16: a registration call that succeeds puts exactly one route after the routes
\* that were there, which stay as they were and in their order, and leaves the router
\* open to the next call; a call that fails and every other step leave the routes
\* alone.  The routes are those of the calls, in the order of the calls.
C16_RegistrationAppends ==
    [][/\ Len(routes') >= Len(routes)
       /\ SubSeq(routes', 1, Len(routes)) = routes
       /\ calls' # calls =>
             /\ Len(routes') = Len(routes) + 1
             /\ Len(calls') = Len(routes')
             /\ RouteOfCall(calls'[Len(calls')], routes'[Len(routes')])
             /\ built' = built /\ built = "none"
       /\ calls' = calls => routes' = routes
       /\ \A r \in 1..Len(routes') : RouteOfCall(calls'[r], routes'[r])]_vars

\* `get` and then `all` were called: the route for /a/h is the first and the route for
\* /a the second.
C16_Witness ==
    /\ Len(routes) = 2
    /\ calls[1].name = "get" /\ calls[2].name = "all"
    /\ routes[1].path = Path_ah /\ Range(routes[1].methods) = {"GET"}
    /\ routes[2].path = Path_a /\ routes[2].options = RootLiteral

\* C17: under `rewrite`, a route that receives a 301 without a Location value (absent
\* or empty) writes nothing to the client response and calls its next stage.
C17_MissingLocationDeclined ==
    \A i \in LogIndex :
        (/\ IsUpstream(i)
         /\ log[i].response.status = MovedPermanently
         /\ routes[log[i].route].redirect_policy = "rewrite"
         /\ log[i].response.headers.location.kind \in {"absent", "empty"}) =>
            LET r == log[i].route
            IN  /\ i < Len(log)
                /\ log[i + 1] = [ev |-> "decline", route |-> r, why |-> "upstream"]
                /\ \A j \in Writes : log[j].route # r
                /\ response.written => response.by # r
                /\ IF built = "composed" /\ r < Len(routes)
                   THEN cur > r
                   ELSE /\ i + 2 = Len(log)
                        /\ log[i + 2] = [ev |-> "next-stage", route |-> r]
                        /\ nextCalls = 1 /\ pc = "done" /\ ~response.written

\* The only route, with the policy `rewrite`, received a 301 with an empty Location:
\* the pipeline's next stage ran and the client response is untouched.
C17_Witness ==
    /\ built = "single"
    /\ routes[1].redirect_policy = "rewrite"
    /\ pc = "done" /\ nextCalls = 1 /\ ~response.written
    /\ \E i \in LogIndex :
          /\ IsUpstream(i)
          /\ log[i].response.status = MovedPermanently
          /\ log[i].response.headers.location = EmptyLocation

\* C18: in a router of several routes, a route that declines the response of its
\* upstream hands the request to the routes after it.  The outbound calls of a
\* request are at most one per route, in registration order, all for that request;
\* each but the first comes after the route of the call before it has received a
\* response and declined it, and none comes after a route has written the response.
C18_DeclinedUpstreamFallsThrough ==
    /\ \A k \in LogIndex :
          (/\ IsUpstream(k)
           /\ IsDeclined(routes[log[k].route], log[k].response)
           /\ built = "composed" /\ log[k].route < Len(routes)) =>
              /\ cur > log[k].route
              /\ \A j \in LogIndex : log[j].ev # "next-stage" \/ log[j].route > log[k].route
    /\ \A i \in Fetches, j \in Fetches : i < j => log[i].route < log[j].route
    /\ \A i \in Fetches :
          /\ log[i].call.method = req.method
          /\ log[i].call.headers.accept = req.headers.accept
    /\ \A i \in Fetches, j \in Fetches :
          i < j =>
              \E k \in (i + 1)..(j - 2) :
                  /\ IsUpstream(k) /\ log[k].route = log[i].route
                  /\ IsDeclined(routes[log[k].route], log[k].response)
                  /\ log[k + 1] = [ev |-> "decline", route |-> log[i].route,
                                   why |-> "upstream"]
    /\ \A k \in Writes, j \in Fetches : j < k

\* One request caused two outbound calls: the first route declined a 301 without
\* Location, the second a 404, and the pipeline's next stage ran.
C18_Witness ==
    /\ built = "composed" /\ Len(routes) = 2
    /\ Cardinality(Fetches) = 2
    /\ pc = "done" /\ nextCalls = 1
    /\ \E i \in LogIndex, j \in LogIndex :
          /\ i < j
          /\ IsUpstream(i) /\ log[i].route = 1
          /\ log[i].response.status = MovedPermanently
          /\ IsUpstream(j) /\ log[j].route = 2
          /\ log[j].response.status = NotFound

\* The literal entries of a route's exclusion list.
Literals(route) ==
    {route.options.exclude_paths[k].value :
        k \in {n \in 1..Len(route.options.exclude_paths) :
                  route.options.exclude_paths[n].kind = "string"}}

\* C19: a literal exclusion entry excludes the decoded request path that is equal to
\* it, letter case included, and no other: a request for a path that the route
\* matches without regard to case and that differs from the literal in case only is
\* not excluded by it and is forwarded.
C19_LiteralExclusionCaseSensitive ==
    /\ \A i \in LogIndex :
          (log[i].ev = "decline" /\ log[i].why = "excluded") =>
              LET entry == routes[log[i].route].options.exclude_paths[log[i - 1].entry]
              IN  entry.kind = "string" =>
                      decodeURIComponent(req.url.pathname) = entry.value
    /\ \A i \in LogIndex :
          LET route == routes[log[i].route]
              url_path == decodeURIComponent(req.url.pathname)
          IN  (/\ log[i].ev = "consult"
               /\ \A k \in 1..Len(route.options.exclude_paths) :
                     route.options.exclude_paths[k].kind = "string"
               /\ url_path \notin Literals(route)
               /\ toLowerCase(url_path) \in {toLowerCase(l) : l \in Literals(route)}) =>
                  /\ \A j \in LogIndex :
                        (log[j].route = log[i].route /\ log[j].ev = "decline") =>
                            log[j].why = "upstream"
                  /\ \E j \in Fetches :
                        /\ j > i /\ log[j].route = log[i].route
                        /\ decodeURIComponent(log[j].call.url.pathname) =
                               route.target.pathname \o
                               substring(url_path, Len(route.path))

\* A root-mode route for /a that excludes the literal /a/x forwarded a request for
\* /A/x.
C19_Witness ==
    /\ pc = "fetching"
    /\ routes[cur].options = RootLiteral
    /\ routes[cur].path = Path_a
    /\ decodeURIComponent(req.url.pathname) = <<"/", "A", "/", "x">>
    /\ outbound # NoCall
    /\ outbound.url.pathname = Target_b.pathname \o <<"/", "x">>

====
